---------------------------- MODULE Spec2Model ----------------------------
(***************************************************************************)
(* Model of the checked_sum crate (src/src/lib.rs).                        *)
(*                                                                         *)
(* The crate has two public operations:                                    *)
(*   CheckedAdd::checked_add  - the macro impl_checked_add forwards it, for *)
(*                              every primitive integer type, to the        *)
(*                              inherent <$t>::checked_add;                 *)
(*   CheckedSum::checked_sum  - Iterator::try_fold over the items, starting *)
(*                              from T::default(), with checked_add as the  *)
(*                              step closure.                               *)
(*                                                                         *)
(* Spec    runs checked_sum, one iterator item per step, over a Vec        *)
(*         iterator or over an endlessly cycling iterator.                 *)
(* AddSpec applies checked_add to operands drawn from the same value sets. *)
(*                                                                         *)
(* The macro instantiates one body at every width.  The model is           *)
(* parametric in the width; the 8 and 16 bit instances, signed and         *)
(* unsigned, are enumerated (wider sums do not fit TLC's integers).        *)
(***************************************************************************)
EXTENDS Integers, Sequences, FiniteSets, TLC

\* Longest item sequence enumerated as the iterator's content.
MaxLen == 3

\* Item values are taken within Near of MIN, of zero and of MAX.
Near == 1

\* Most items one run may draw from a cycling iterator.
MaxSteps == 800

VARIABLES
    ty,       \* the item type T of the call
    input,    \* the items behind the iterator (checked_add: its operands)
    cyc,      \* TRUE: the iterator repeats input endlessly (iter::cycle)
    pos,      \* items taken from the iterator so far
    acc,      \* try_fold's accumulator
    adds,     \* calls of checked_add made by the fold so far
    pc,       \* "fold" | "done" for checked_sum, "args" | "evaluated" for checked_add
    result,   \* the Option returned by checked_sum
    outcome   \* the Options returned by the checked_add calls of AddSpec

vars == <<ty, input, cyc, pos, acc, adds, pc, result, outcome>>

---------------------------------------------------------------------------
\* Option<T>

None == <<>>

Some(v) == <<v>>

---------------------------------------------------------------------------
\* The primitive integer types of the two impl_checked_add! lines.

UnsignedTypes == {"u8", "u16"}

SignedTypes == {"i8", "i16"}

Types == UnsignedTypes \cup SignedTypes

\* Types for which cycling iterators are enumerated: a 16 bit cycle may take
\* 2^16 items and more before it overflows.
CycleTypes == {"u8", "i8"}

Signed(t) == t \in SignedTypes

Bits(t) == IF t \in {"u8", "i8"} THEN 8 ELSE 16

RECURSIVE Pow2(_)
Pow2(n) == IF n = 0 THEN 1 ELSE 2 * Pow2(n - 1)

Modulus(t) == Pow2(Bits(t))

MinVal(t) == IF Signed(t) THEN 0 - Pow2(Bits(t) - 1) ELSE 0

MaxVal(t) == IF Signed(t) THEN Pow2(Bits(t) - 1) - 1 ELSE Modulus(t) - 1

InRange(t, x) == MinVal(t) <= x /\ x <= MaxVal(t)

\* The values of type t that are enumerated as items and operands.
Elems(t) ==
    IF Signed(t)
    THEN (MinVal(t) .. MinVal(t) + Near) \cup ((0 - Near) .. Near)
             \cup (MaxVal(t) - Near .. MaxVal(t))
    ELSE (0 .. Near) \cup (MaxVal(t) - Near .. MaxVal(t))

---------------------------------------------------------------------------
\* <$t>::checked_add(*self, *other): the two's complement sum of the operands
\* together with the overflow flag; None when the flag is set.

ToBits(t, x) == x % Modulus(t)

FromBits(t, u) == IF Signed(t) /\ u >= Modulus(t) \div 2 THEN u - Modulus(t) ELSE u

WrappingAdd(t, a, b) == FromBits(t, (ToBits(t, a) + ToBits(t, b)) % Modulus(t))

\* Unsigned: the carry out of the top bit.  Signed: both operands have one
\* sign and the wrapped sum has the other.
Overflowed(t, a, b) ==
    IF Signed(t)
    THEN ((a < 0) = (b < 0)) /\ ((WrappingAdd(t, a, b) < 0) # (a < 0))
    ELSE ToBits(t, a) + ToBits(t, b) >= Modulus(t)

\* Mutant: the sum is returned wrapped, the overflow flag is dropped.
CheckedAddWrapping(t, a, b) == Some(WrappingAdd(t, a, b))

\* Mutant: the signed overflow flag compares the sum's sign with self's only.
CheckedAddSignOfSelf(t, a, b) ==
    IF (IF Signed(t)
        THEN (WrappingAdd(t, a, b) < 0) # (a < 0)
        ELSE ToBits(t, a) + ToBits(t, b) >= Modulus(t))
    THEN None
    ELSE Some(WrappingAdd(t, a, b))

CheckedAdd(t, a, b) ==
    IF Overflowed(t, a, b) THEN None ELSE Some(WrappingAdd(t, a, b))

\* Mutant: the fold starts from one.
DefaultOne(t) == 1

\* T::default(): zero for every primitive integer type.
Default(t) == 0

---------------------------------------------------------------------------
\* The iterator.

\* All sequences over S of length 0 .. n.
SeqsUpTo(S, n) == UNION {[1..k -> S] : k \in 0..n}

\* The i-th item the iterator yields (1-based).
ItemAt(i) == input[((i - 1) % Len(input)) + 1]

\* Iterator::next() returns Some: a Vec iterator until its items are used up,
\* a cycling iterator always.
HasNext == IF cyc THEN Len(input) > 0 ELSE pos < Len(input)

---------------------------------------------------------------------------
\* checked_sum: self.try_fold(T::default(), |acc, value| acc.checked_add(&value))

Init ==
    /\ ty \in Types
    /\ input \in SeqsUpTo(Elems(ty), MaxLen)
    /\ cyc \in (IF ty \in CycleTypes /\ Len(input) > 0 THEN BOOLEAN ELSE {FALSE})
    /\ pos = 0
    /\ acc = Default(ty)
    /\ adds = 0
    /\ pc = "fold"
    /\ result = None
    /\ outcome = None

\* Mutant: a plain fold over Option, which drains the iterator before it
\* reports the overflow.
StepFullFold ==
    /\ pc = "fold"
    /\ HasNext
    /\ pos < MaxSteps
    /\ LET r == CheckedAdd(ty, acc, ItemAt(pos + 1))
       IN  /\ adds' = adds + 1
           /\ IF r = None
              THEN /\ pc' = "done"
                   /\ result' = None
                   /\ pos' = IF cyc THEN pos + 2 ELSE Len(input)
                   /\ UNCHANGED acc
              ELSE /\ acc' = r[1]
                   /\ pos' = pos + 1
                   /\ UNCHANGED <<pc, result>>
    /\ UNCHANGED <<ty, input, cyc, outcome>>

\* One turn of try_fold's loop: next() yields an item, the closure is applied
\* to the accumulator and the item; None leaves the loop and is returned.
Step ==
    /\ pc = "fold"
    /\ HasNext
    /\ pos < MaxSteps
    /\ LET r == CheckedAdd(ty, acc, ItemAt(pos + 1))
       IN  /\ pos' = pos + 1
           /\ adds' = adds + 1
           /\ IF r = None
              THEN /\ pc' = "done"
                   /\ result' = None
                   /\ UNCHANGED acc
              ELSE /\ acc' = r[1]
                   /\ UNCHANGED <<pc, result>>
    /\ UNCHANGED <<ty, input, cyc, outcome>>

\* Mutant: an exhausted iterator that yielded nothing reports None.
FinishNoneOnEmpty ==
    /\ pc = "fold"
    /\ ~HasNext
    /\ pc' = "done"
    /\ result' = IF pos = 0 THEN None ELSE Some(acc)
    /\ UNCHANGED <<ty, input, cyc, pos, acc, adds, outcome>>

\* next() yields None: try_fold returns the accumulator as Some.
Finish ==
    /\ pc = "fold"
    /\ ~HasNext
    /\ pc' = "done"
    /\ result' = Some(acc)
    /\ UNCHANGED <<ty, input, cyc, pos, acc, adds, outcome>>

Next == Step \/ Finish

Spec == Init /\ [][Next]_vars

---------------------------------------------------------------------------
\* checked_add, applied to operands a, b, c = input[1], input[2], input[3].

\* checked_add applied to the value of an Option and x; None stays None.
AndThenAdd(t, o, x) == IF o = None THEN None ELSE CheckedAdd(t, o[1], x)

AddInit ==
    /\ ty \in Types
    /\ input \in [1..3 -> Elems(ty)]
    /\ cyc = FALSE
    /\ pos = 0
    /\ acc = Default(ty)
    /\ adds = 0
    /\ pc = "args"
    /\ result = None
    /\ outcome = None

Evaluate ==
    /\ pc = "args"
    /\ pc' = "evaluated"
    /\ outcome' = [ab    |-> CheckedAdd(ty, input[1], input[2]),
                   ba    |-> CheckedAdd(ty, input[2], input[1]),
                   left  |-> AndThenAdd(ty, CheckedAdd(ty, input[1], input[2]), input[3]),
                   right |-> AndThenAdd(ty, CheckedAdd(ty, input[2], input[3]), input[1])]
    /\ UNCHANGED <<ty, input, cyc, pos, acc, adds, result>>

AddNext == Evaluate

AddSpec == AddInit /\ [][AddNext]_vars

---------------------------------------------------------------------------
\* Exact integer arithmetic, against which the results are stated.

RECURSIVE Sum(_)
Sum(s) == IF s = <<>> THEN 0 ELSE s[1] + Sum(Tail(s))

\* The exact sum of the first k items the iterator yields.
SumFirst(k) ==
    IF Len(input) = 0
    THEN 0
    ELSE (k \div Len(input)) * Sum(input) + Sum(SubSeq(input, 1, k % Len(input)))

\* The checked_sum call over a Vec iterator has returned.
Returned == pc = "done" /\ ~cyc


\* The checked_sum of the items of s in type t, from accumulator a: the same
\* try_fold, over a Vec iterator, as a function of the items.
RECURSIVE TryFold(_, _, _)
TryFold(t, a, s) ==
    IF s = <<>>
    THEN Some(a)
    ELSE LET r == CheckedAdd(t, a, Head(s))
         IN  IF r = None THEN None ELSE TryFold(t, r[1], Tail(s))

\* The rearrangements of the items of s.
Rearranged(s) ==
    {[i \in 1..Len(s) |-> s[f[i]]] : f \in Permutations(1..Len(s))}

---------------------------------------------------------------------------
\* C1: for every finite sequence whose exact sum lies in [MIN, MAX],
\* checked_sum returns Some of that exact sum.
C1_SumInRangeIsReturned ==
    (Returned /\ InRange(ty, Sum(input))) => result = Some(Sum(input))

\* C2: for every finite sequence whose exact sum is above MAX or below MIN,
\* checked_sum returns None (no wrapped value).
C2_SumOutOfRangeIsNone ==
    (Returned /\ ~InRange(ty, Sum(input))) => result = None

\* C2 witness: a signed sum below MIN and an unsigned or signed sum above MAX
\* are told apart by the sign of the sum; here the sum fell below MIN.
C2_Witness ==
    Returned /\ Signed(ty) /\ Sum(input) < MinVal(ty) /\ result = None

\* C3: checked_sum returns the same result for every rearrangement of the
\* same items.
C3_OrderInsensitive ==
    Returned => \A p \in Rearranged(input) : TryFold(ty, Default(ty), p) = result

\* C4: checked_add(a, b) is Some of the exact sum when a + b lies in
\* [MIN, MAX] and None otherwise; never a wrapped value.
C4_CheckedAddExact ==
    pc = "evaluated" =>
        outcome.ab = IF InRange(ty, input[1] + input[2])
                     THEN Some(input[1] + input[2])
                     ELSE None

\* C4 witness: a sum that reaches MAX exactly, with both operands non-zero,
\* is returned.
C4_Witness ==
    /\ pc = "evaluated"
    /\ input[1] # 0 /\ input[2] # 0
    /\ input[1] + input[2] = MaxVal(ty)
    /\ outcome.ab = Some(MaxVal(ty))

\* C5: checked_sum of an empty sequence returns Some(zero), and no
\* checked_add is performed.
C5_EmptyIsIdentity ==
    (pc = "done" /\ input = <<>>) => (result = Some(0) /\ adds = 0)

C5_Witness ==
    pc = "done" /\ input = <<>> /\ result = Some(0)

C6_WitnessVec ==
    pc = "done" /\ result = None /\ ~cyc /\ pos < Len(input)

\* C7: checked_add is commutative and associative for every integer type;
\* an absent intermediate result makes the whole outcome absent.
C7_CommutativeAssociative ==
    pc = "evaluated" => (outcome.ab = outcome.ba /\ outcome.left = outcome.right)

\* C7 as amended: commutative for every type; associative for the unsigned
\* types; for the signed types the two groupings are equal whenever both are
\* present.
C7_Amended ==
    pc = "evaluated" =>
        /\ outcome.ab = outcome.ba
        /\ ~Signed(ty) => outcome.left = outcome.right
        /\ (outcome.left # None /\ outcome.right # None) => outcome.left = outcome.right

\* C7 witness: signed operands of mixed sign whose groupings are both present.
C7_Witness ==
    /\ pc = "evaluated"
    /\ Signed(ty)
    /\ input[1] < 0 /\ input[2] > 0 /\ input[3] > 0
    /\ outcome.left # None /\ outcome.left = outcome.right
    /\ outcome.ab = outcome.ba

\* C8: checked_add(identity, x) = Some(x) for every x, so checked_sum of the
\* one-item sequence <<x>> is Some(x), also for x = MAX and x = MIN.
C8_IdentityNeverOverflows ==
    /\ pos = 1 => (acc = input[1] /\ (pc = "done" => result = Some(input[1])))
    /\ (Returned /\ Len(input) = 1) => (pos = 1 /\ result = Some(input[1]))

\* C8 witness: the single item is MIN of a signed type.
C8_Witness ==
    /\ Returned /\ Len(input) = 1 /\ Signed(ty)
    /\ input[1] = MinVal(ty) /\ result = Some(MinVal(ty))

C10_UnsignedDependsOnSum ==
    (Returned /\ ~Signed(ty)) =>
        result = IF Sum(input) <= MaxVal(ty) THEN Some(Sum(input)) ELSE None

\* C10 witness: an unsigned sum of several non-zero items reaches MAX exactly.
C10_Witness ==
    /\ Returned /\ ~Signed(ty) /\ Len(input) >= 2
    /\ \A i \in 1 .. Len(input) : input[i] # 0
    /\ Sum(input) = MaxVal(ty) /\ result = Some(MaxVal(ty))

=============================================================================
